---------------------------- MODULE Spec2Model ----------------------------
(***************************************************************************)
(* Shelter accessibility analysis (analyze.py, util.py, simulate.py).      *)
(*                                                                         *)
(* Two parts of the pipeline are modelled:                                 *)
(*   - update_routes: the route normalizer, which attaches coordinates to  *)
(*     every shelter of every raw route document and sorts each document's *)
(*     shelter list per travel mode (specification SpecRoutes);            *)
(*   - Analyst.analyze: the aggregator, which walks the normalized         *)
(*     documents of one mode (specification Spec).                         *)
(*                                                                         *)
(* Coordinates are points <<x, y>> of a small integer grid and a polygon   *)
(* is the set of grid points it contains.  A JSON object is a record, a    *)
(* JSON array a sequence, and JSON false the record JsonFalse.             *)
(***************************************************************************)
EXTENDS Integers, Sequences, FiniteSets, TLC

(***************************************************************************)
(* Bounds of the model.                                                    *)
(***************************************************************************)
\* documents (lines) of the route file
MaxDocs == 2
\* n_closest ranges over 1..MaxN
MaxN == 2
\* analyze calls made on one Analyst object
MaxCalls == 3

(***************************************************************************)
(* Program constants.                                                      *)
(***************************************************************************)
Modes == <<"walk", "drive", "transit">>

ModeSet == {Modes[i] : i \in DOMAIN Modes}

ACS5_GEOID_PREFIX == "15000US"

EVAC_EXCLUDE == <<"ZONE A", "ZONE B", "ZONE C">>

IGNORE_GEOIDS == {"250259901010", "250235001011"}

\* 1e10 in the source (the sort key of a shelter without a route); here the
\* largest integer TLC represents, which is above every duration of the model
NoRouteKey == 2147483647

SecondsPerMinute == 60

(***************************************************************************)
(* The input files and stores, fixed for a run.                            *)
(***************************************************************************)
\* sources/boston.geojson: the municipal boundary
BOSTON_POLYGON == {<<x, y>> : x \in 0..4, y \in 0..4}

\* sources/shelters.json: the features, OBJECTID and point geometry
shelter_info ==
    [features |-> <<
        [properties |-> [OBJECTID |-> 1], geometry |-> [coordinates |-> <<1, 1>>]],
        [properties |-> [OBJECTID |-> 2], geometry |-> [coordinates |-> <<2, 1>>]],
        [properties |-> [OBJECTID |-> 3], geometry |-> [coordinates |-> <<3, 1>>]]
    >>]

\* massgis_mapserver / CityServices.Evacuation: the polygon of each zone
evac_zones ==
    [z \in {"ZONE A", "ZONE B", "ZONE C"} |->
        CASE z = "ZONE A" -> {<<1, 1>>, <<1, 0>>}
          [] z = "ZONE B" -> {<<2, 1>>, <<2, 0>>}
          [] z = "ZONE C" -> {<<4, 0>>}]

\* sources/acs5_2015_ma_subset.csv: column B01003e1 indexed by GEOID
acs5 ==
    [g \in {"15000US250250001001", "15000US250173001003", "15000US250259901010"} |->
        CASE g = "15000US250250001001" -> 100
          [] g = "15000US250173001003" -> 70
          [] g = "15000US250259901010" -> 0]

\* the block groups of the route file: GEOID, routing origin and centroid
\* (250250003003 has no row in the population table)
BlockGroups ==
    { [geoid |-> "250250001001", origin |-> <<1, 2>>, centroid |-> <<1, 2>>],
      [geoid |-> "250173001003", origin |-> <<7, 2>>, centroid |-> <<7, 2>>],
      [geoid |-> "250259901010", origin |-> <<3, 3>>, centroid |-> <<3, 3>>],
      [geoid |-> "250250003003", origin |-> <<3, 2>>, centroid |-> <<3, 2>>] }

(***************************************************************************)
(* JSON values and Python's truth rule.                                    *)
(***************************************************************************)
JsonFalse == [json |-> "false"]

Route(d) == [duration |-> d]

IsFalse(v) == v = JsonFalse

\* Python's None and False
None == [py |-> "None"]

PyFalse == [py |-> "False"]

\* a Python list value, as against None
PyList(seq) == [list |-> seq]

IsList(v) == "list" \in DOMAIN v

Range(seq) == {seq[i] : i \in DOMAIN seq}

(***************************************************************************)
(* The raw route documents, as simulate.py's get_routes writes them: one   *)
(* entry per shelter feature, in feature order, each with a route result   *)
(* (or false) per mode.  Profile(k) gives the three modes the k-th         *)
(* rotation of RouteVals, so that every mode meets every value.            *)
(***************************************************************************)
RouteVals == <<Route(120), Route(300), JsonFalse, Route(0)>>

ModeIdx(m) == CHOOSE i \in DOMAIN Modes : Modes[i] = m

Profile(k) ==
    [m \in ModeSet |-> RouteVals[((k + ModeIdx(m) - 1) % Len(RouteVals)) + 1]]

RawShelterLists ==
    { [i \in DOMAIN shelter_info.features |->
          [objectid |-> shelter_info.features[i].properties.OBJECTID,
           routes   |-> Profile(ks[i])]] :
      ks \in {f \in [DOMAIN shelter_info.features -> 0..(Len(RouteVals) - 1)] :
                  f[1] = 0} }

RawDocs ==
    { [_id |-> "oid", blockgroup |-> bg, shelters |-> sh] :
      bg \in BlockGroups, sh \in RawShelterLists }

\* a document written before a shelter was withdrawn from shelters.json: its
\* objectid 4 has no feature any more
StaleDocs ==
    { [_id |-> "oid", blockgroup |-> bg,
       shelters |-> <<[objectid |-> 1, routes |-> Profile(0)],
                      [objectid |-> 4, routes |-> Profile(1)]>>] :
      bg \in {b \in BlockGroups : b.geoid = "250250001001"} }

\* the lines sources/shelter_routes.json is made of; update_routes does not
\* read the block group, and two block groups tell the documents apart
RouteLines ==
    {d \in RawDocs : d.blockgroup.geoid \in {"250250001001", "250173001003"}}
        \cup StaleDocs

(***************************************************************************)
(* update_routes, lines 75-111.                                            *)
(***************************************************************************)
RECURSIVE FindFrom(_, _)
FindFrom(i, object_id) ==
    IF i > Len(shelter_info.features) THEN None
    ELSE IF shelter_info.features[i].properties.OBJECTID = object_id
         THEN shelter_info.features[i]
         ELSE FindFrom(i + 1, object_id)

find_shelter(object_id) == FindFrom(1, object_id)

\* doc.pop("_id")
PopId(doc) == [f \in DOMAIN doc \ {"_id"} |-> doc[f]]

\* line 98 fails (None is not subscriptable) for an objectid without a feature
CanAttach(doc) ==
    \A i \in DOMAIN doc.shelters : find_shelter(doc.shelters[i].objectid) # None

AttachCoordinates(shelters) ==
    [i \in DOMAIN shelters |->
        [objectid    |-> shelters[i].objectid,
         routes      |-> shelters[i].routes,
         coordinates |-> find_shelter(shelters[i].objectid).geometry.coordinates]]

\* routes[mode] and routes[mode]["duration"] or 1e10: a false route and a
\* duration of 0 are both falsy, and both give the key 1e10
SortKey(shelter, mode) ==
    IF IsFalse(shelter.routes[mode]) THEN NoRouteKey
    ELSE IF shelter.routes[mode].duration = 0 THEN NoRouteKey
    ELSE shelter.routes[mode].duration

\* x placed behind every element whose key is not above its own
InsertStable(s, x, mode) ==
    LET before == {i \in DOMAIN s : SortKey(s[i], mode) <= SortKey(x, mode)}
        n == IF before = {} THEN 0
             ELSE CHOOSE i \in before : \A k \in before : k <= i
    IN  SubSeq(s, 1, n) \o <<x>> \o SubSeq(s, n + 1, Len(s))

\* sorted(list, key = ...): the stable sort
RECURSIVE Sorted(_, _)
Sorted(s, mode) ==
    IF s = <<>> THEN <<>>
    ELSE InsertStable(Sorted(SubSeq(s, 1, Len(s) - 1), mode), s[Len(s)], mode)

\* a faulty variant: shelters without a route for the mode are dropped
UpdateDocFiltering(raw, mode) ==
    [blockgroup |-> PopId(raw).blockgroup,
     shelters   |-> SelectSeq(Sorted(AttachCoordinates(PopId(raw).shelters), mode),
                              LAMBDA sh : ~IsFalse(sh.routes[mode]))]

\* one line of the raw file, for one mode (lines 95-109)
UpdateDoc(raw, mode) ==
    [blockgroup |-> PopId(raw).blockgroup,
     shelters   |-> Sorted(AttachCoordinates(PopId(raw).shelters), mode)]

(***************************************************************************)
(* util.union_evac_zones, util.py lines 10-36.                             *)
(***************************************************************************)
\* shape.buffer(1e-9): no grid point lies that close to a boundary
Buffer(shape) == shape

RECURSIVE UnionFrom(_, _, _)
UnionFrom(zone_list, i, evac_union) ==
    IF i > Len(zone_list) THEN evac_union
    ELSE LET zone_shape == Buffer(evac_zones[zone_list[i]])
         IN  UnionFrom(zone_list, i + 1,
                       IF evac_union = None THEN [geom |-> zone_shape]
                       ELSE [geom |-> evac_union.geom \cup zone_shape])

union_evac_zones(zone_list) == UnionFrom(zone_list, 1, None)

\* polygon.contains(Point(coordinates))
Contains(polygon, point) == point \in polygon.geom

\* the truth value of exclude_polygon: False, None and an empty geometry are
\* falsy
Truthy(v) == "geom" \in DOMAIN v /\ v.geom # {}

(***************************************************************************)
(* Analyst.analyze, analyze.py lines 119-236: the helpers of the loop      *)
(* body.                                                                   *)
(***************************************************************************)
\* a faulty variant: the default zones stand in for a disabled filter
ResolveWithDefault(zones) ==
    union_evac_zones(IF IsList(zones) THEN zones.list ELSE EVAC_EXCLUDE)

\* lines 165-167
ResolveExcludePolygon(zones) ==
    IF IsList(zones) THEN union_evac_zones(zones.list) ELSE PyFalse

\* line 171
Ignored(d) == d.blockgroup.geoid \in IGNORE_GEOIDS

\* a faulty variant: the boundary test is dropped
OutsideNever(d) == FALSE

\* lines 175-178
Outside(d) == d.blockgroup.centroid \notin BOSTON_POLYGON

\* lines 180-181
bg_acs5_geoid(d) == ACS5_GEOID_PREFIX \o d.blockgroup.geoid

\* lines 187-188
RecordShelter(shelters, shelter) ==
    IF shelter \in Range(shelters) THEN shelters ELSE Append(shelters, shelter)

\* line 190
HasRoute(shelter, m) == ~IsFalse(shelter.routes[m])

\* a faulty variant: the point-in-polygon test is inverted
SkippedOutside(shelter, polygon, excluded, not_excluded) ==
    /\ Truthy(polygon)
    /\ \/ shelter.objectid \in excluded
       \/ /\ shelter.objectid \notin not_excluded
          /\ ~Contains(polygon, shelter.coordinates)

\* lines 192-205: the shelter is skipped (continue) by the zone filter
Skipped(shelter, polygon, excluded, not_excluded) ==
    /\ Truthy(polygon)
    /\ \/ shelter.objectid \in excluded
       \/ /\ shelter.objectid \notin not_excluded
          /\ Contains(polygon, shelter.coordinates)

\* a faulty variant: the memo of the shelters found outside is not consulted
TestedWithoutMemo(shelter, polygon, excluded, not_excluded) ==
    /\ Truthy(polygon)
    /\ shelter.objectid \notin excluded

\* lines 195-205: the point-in-polygon test is evaluated for the shelter
Tested(shelter, polygon, excluded, not_excluded) ==
    /\ Truthy(polygon)
    /\ shelter.objectid \notin excluded
    /\ shelter.objectid \notin not_excluded

\* a faulty variant: an excluded shelter falls through to the counting code
CountedThoughSkipped(shelter, m, polygon, excluded, not_excluded) ==
    HasRoute(shelter, m)

\* lines 190-209: the shelter's duration is appended to travel_times
Counted(shelter, m, polygon, excluded, not_excluded) ==
    /\ HasRoute(shelter, m)
    /\ ~Skipped(shelter, polygon, excluded, not_excluded)

\* a faulty variant: the population is assigned, not accumulated
AddPopOverwrite(shelter_pops, object_id_str, pop) ==
    (object_id_str :> pop) @@ shelter_pops

\* lines 211-215
AddPop(shelter_pops, object_id_str, pop) ==
    IF object_id_str \in DOMAIN shelter_pops
    THEN [shelter_pops EXCEPT ![object_id_str] = @ + pop]
    ELSE (object_id_str :> pop) @@ shelter_pops

\* a faulty variant: the test of line 222 made one shelter late
BreakLate(times, n) == Len(times) = n + 1

\* line 222
BreakNow(times, n) == Len(times) = n

RECURSIVE Sum(_)
Sum(seq) == IF seq = <<>> THEN 0 ELSE seq[1] + Sum(Tail(seq))

\* a quotient num / den, kept exact
Quotient(n, d) == [num |-> n, den |-> d]

\* lines 225-228
bg_avg_travel(times) ==
    IF Len(times) > 0 THEN Quotient(Sum(times), Len(times)) ELSE PyFalse

\* line 231: x / 60; Python's False is the integer 0, so False / 60 is 0.0
Divide(x, k) ==
    IF x = PyFalse THEN Quotient(0, k) ELSE Quotient(x.num, x.den * k)

(***************************************************************************)
(* State.                                                                  *)
(***************************************************************************)
VARIABLES
    \* Analyst.analyze
    pc,                     \* where analyze stands
    mode, n_closest, excluded_zones,    \* its arguments
    exclude_polygon,        \* line 165
    data,                   \* line 131, the result
    not_excluded_shelters,  \* line 163
    docs_read,              \* documents of the mode's file iterated so far
    doc,                    \* the document of the current iteration
    last_bg,                \* history: the block group of the document last taken
    bg_pop,                 \* line 181
    travel_times,           \* line 183
    j,                      \* position in doc["shelters"]
    collected,              \* history: objectids counted for the current document
    trace,                  \* history: one entry per in-scope document finished
    contains_calls,         \* history: objectids exclude_polygon.contains saw (line 199)
    \* update_routes
    routes_json,            \* the lines of sources/shelter_routes.json
    ur_pc,                  \* where update_routes stands
    ur_mode,                \* index into Modes of the current mode
    ur_line,                \* lines of the raw file read for the current mode
    docs,                   \* line 92
    out_files,              \* contents of analysis/routes_<mode>_sorted.json
    \* render_all_modes
    results,                \* line 476, the dictionary of returned results
    calls                   \* analyze calls that have returned

analyst_vars ==
    <<pc, mode, n_closest, excluded_zones, exclude_polygon, data,
      not_excluded_shelters, docs_read, doc, last_bg, bg_pop, travel_times,
      j, collected, trace, contains_calls>>

routes_vars == <<routes_json, ur_pc, ur_mode, ur_line, docs, out_files>>

render_vars == <<results, calls>>

vars == <<analyst_vars, routes_vars, render_vars>>

\* the values of the excluded_zones argument
ZoneArgs == {None, PyList(<<"ZONE A">>), PyList(EVAC_EXCLUDE)}

NoDoc == [blockgroup |-> None, shelters |-> <<>>]

AnalystInit ==
    /\ pc = "idle"
    /\ mode = "walk"
    /\ n_closest = 1
    /\ excluded_zones = None
    /\ exclude_polygon = PyFalse
    /\ data = None
    /\ not_excluded_shelters = {}
    /\ docs_read = 0
    /\ doc = NoDoc
    /\ last_bg = None
    /\ bg_pop = 0
    /\ travel_times = <<>>
    /\ j = 1
    /\ collected = <<>>
    /\ trace = <<>>
    /\ contains_calls = <<>>

\* no analyze call has returned
RenderOff ==
    /\ results = <<>>
    /\ calls = 0

RoutesOff ==
    /\ routes_json = <<>>
    /\ ur_pc = "off"
    /\ ur_mode = 1
    /\ ur_line = 0
    /\ docs = <<>>
    /\ out_files = [m \in ModeSet |-> None]

Init == AnalystInit /\ RoutesOff /\ RenderOff

(***************************************************************************)
(* Analyst.analyze.                                                        *)
(***************************************************************************)
\* a faulty variant: the result dictionary and the memo are kept on the
\* object and outlive the call
AnalyzeKeepingState(m, n, zones) ==
    /\ pc = "idle"
    /\ pc' = "docs"
    /\ mode' = m
    /\ n_closest' = n
    /\ excluded_zones' = zones
    /\ data' = IF data = None
               THEN [shelter_pops        |-> <<>>,
                     shelters            |-> <<>>,
                     blockgroups         |-> <<>>,
                     bg_to_shelter_lines |-> <<>>,
                     excluded_shelters   |-> {},
                     mode                |-> m,
                     n_closest           |-> n,
                     excluded_zones      |-> zones]
               ELSE [data EXCEPT !.blockgroups = <<>>,
                                 !.bg_to_shelter_lines = <<>>,
                                 !.mode = m,
                                 !.n_closest = n,
                                 !.excluded_zones = zones]
    /\ exclude_polygon' = ResolveExcludePolygon(zones)
    /\ docs_read' = 0
    /\ trace' = <<>>
    /\ contains_calls' = <<>>
    /\ last_bg' = None
    /\ UNCHANGED <<not_excluded_shelters, doc, bg_pop, travel_times, j,
                   collected, routes_vars, render_vars>>

\* lines 131-169: the call, up to the opening of the mode's file
Analyze(m, n, zones) ==
    /\ pc = "idle"
    /\ pc' = "docs"
    /\ mode' = m
    /\ n_closest' = n
    /\ excluded_zones' = zones
    /\ data' = [shelter_pops        |-> <<>>,
                shelters            |-> <<>>,
                blockgroups         |-> <<>>,
                bg_to_shelter_lines |-> <<>>,
                excluded_shelters   |-> {},
                mode                |-> m,
                n_closest           |-> n,
                excluded_zones      |-> zones]
    /\ not_excluded_shelters' = {}
    /\ exclude_polygon' = ResolveExcludePolygon(zones)
    /\ docs_read' = 0
    /\ trace' = <<>>
    /\ contains_calls' = <<>>
    /\ last_bg' = None
    /\ UNCHANGED <<doc, bg_pop, travel_times, j, collected, routes_vars, render_vars>>

\* the documents update_routes can have written to the file of each mode
NormalizedDocs == [m \in ModeSet |-> {UpdateDoc(raw, m) : raw \in RawDocs}]

\* line 170: the loop takes the next document, d, of the mode's file; doc
\* holds it while its shelters are walked
NextDocIs(d) ==
    /\ last_bg' = d.blockgroup
    /\ docs_read' = docs_read + 1

\* line 171: a block group of the ignore list
IgnoreDocOf(d) ==
    /\ pc = "docs"
    /\ docs_read < MaxDocs
    /\ NextDocIs(d)
    /\ Ignored(d)
    /\ UNCHANGED <<pc, mode, n_closest, excluded_zones, exclude_polygon, data,
                   not_excluded_shelters, doc, bg_pop, travel_times, j,
                   collected, trace, contains_calls,
                   routes_vars, render_vars>>

IgnoreDoc ==
    /\ pc = "docs"
    /\ docs_read < MaxDocs
    /\ \E d \in NormalizedDocs[mode] : IgnoreDocOf(d)

\* lines 175-178: a centroid outside the boundary
OutsideDocOf(d) ==
    /\ pc = "docs"
    /\ docs_read < MaxDocs
    /\ NextDocIs(d)
    /\ ~Ignored(d)
    /\ Outside(d)
    /\ UNCHANGED <<pc, mode, n_closest, excluded_zones, exclude_polygon, data,
                   not_excluded_shelters, doc, bg_pop, travel_times, j,
                   collected, trace, contains_calls,
                   routes_vars, render_vars>>

OutsideDoc ==
    /\ pc = "docs"
    /\ docs_read < MaxDocs
    /\ \E d \in NormalizedDocs[mode] : OutsideDocOf(d)

\* a faulty variant: a block group without a population row is passed over
PopulationMissingSkipped(d) ==
    /\ pc = "docs"
    /\ docs_read < MaxDocs
    /\ NextDocIs(d)
    /\ ~Ignored(d)
    /\ ~Outside(d)
    /\ bg_acs5_geoid(d) \notin DOMAIN acs5
    /\ UNCHANGED <<pc, mode, n_closest, excluded_zones, exclude_polygon, data,
                   not_excluded_shelters, doc, bg_pop, travel_times, j,
                   collected, trace, contains_calls,
                   routes_vars, render_vars>>

\* line 181: the GEOID has no row in the population table (KeyError)
PopulationMissingOf(d) ==
    /\ pc = "docs"
    /\ docs_read < MaxDocs
    /\ NextDocIs(d)
    /\ ~Ignored(d)
    /\ ~Outside(d)
    /\ bg_acs5_geoid(d) \notin DOMAIN acs5
    /\ pc' = "KeyError"
    /\ UNCHANGED <<mode, n_closest, excluded_zones, exclude_polygon, data,
                   not_excluded_shelters, doc, bg_pop, travel_times, j,
                   collected, trace, contains_calls,
                   routes_vars, render_vars>>

PopulationMissing ==
    /\ pc = "docs"
    /\ docs_read < MaxDocs
    /\ \E d \in NormalizedDocs[mode] : PopulationMissingOf(d)

\* lines 171-183: an in-scope block group, up to the shelter loop
BeginDocOf(d) ==
    /\ pc = "docs"
    /\ docs_read < MaxDocs
    /\ NextDocIs(d)
    /\ ~Ignored(d)
    /\ ~Outside(d)
    /\ bg_acs5_geoid(d) \in DOMAIN acs5
    /\ doc' = d
    /\ bg_pop' = acs5[bg_acs5_geoid(d)]
    /\ travel_times' = <<>>
    /\ collected' = <<>>
    /\ j' = 1
    /\ pc' = "shelters"
    /\ UNCHANGED <<mode, n_closest, excluded_zones, exclude_polygon, data,
                   not_excluded_shelters, trace, contains_calls,
                   routes_vars, render_vars>>

BeginDoc ==
    /\ pc = "docs"
    /\ docs_read < MaxDocs
    /\ \E d \in NormalizedDocs[mode] : BeginDocOf(d)

\* lines 185-223: one iteration of the shelter loop
VisitShelter ==
    /\ pc = "shelters"
    /\ j <= Len(doc.shelters)
    /\ LET shelter   == doc.shelters[j]
           routed    == HasRoute(shelter, mode)
           skipped   == routed /\ Skipped(shelter, exclude_polygon,
                                          data.excluded_shelters,
                                          not_excluded_shelters)
           tested    == routed /\ Tested(shelter, exclude_polygon,
                                         data.excluded_shelters,
                                         not_excluded_shelters)
           counted   == Counted(shelter, mode, exclude_polygon,
                                data.excluded_shelters, not_excluded_shelters)
           times     == IF counted
                        THEN Append(travel_times, shelter.routes[mode].duration)
                        ELSE travel_times
       IN  /\ data' =
                [data EXCEPT
                   !.shelters = RecordShelter(@, shelter),
                   !.excluded_shelters =
                       IF tested /\ skipped THEN @ \cup {shelter.objectid} ELSE @,
                   !.shelter_pops =
                       IF counted THEN AddPop(@, ToString(shelter.objectid), bg_pop)
                       ELSE @,
                   !.bg_to_shelter_lines =
                       IF counted
                       THEN Append(@, <<shelter.coordinates, doc.blockgroup.origin>>)
                       ELSE @]
           /\ not_excluded_shelters' =
                IF tested /\ ~skipped
                THEN not_excluded_shelters \cup {shelter.objectid}
                ELSE not_excluded_shelters
           /\ contains_calls' =
                IF tested THEN Append(contains_calls, shelter.objectid)
                ELSE contains_calls
           /\ travel_times' = times
           /\ collected' = IF counted THEN Append(collected, shelter.objectid)
                           ELSE collected
           /\ j' = j + 1
           \* continue (a skipped shelter) jumps over the test of line 222
           /\ pc' = IF ~skipped /\ BreakNow(times, n_closest) THEN "avg"
                    ELSE "shelters"
    /\ UNCHANGED <<mode, n_closest, excluded_zones, exclude_polygon, docs_read,
                   doc, last_bg, bg_pop, trace, routes_vars, render_vars>>

\* lines 225-234: the shelter loop has ended, by break or by exhaustion
FinishDoc ==
    /\ \/ pc = "avg"
       \/ pc = "shelters" /\ j > Len(doc.shelters)
    /\ data' = [data EXCEPT !.blockgroups =
                   Append(@, [avg_travel |-> Divide(bg_avg_travel(travel_times),
                                                    SecondsPerMinute),
                              geoid      |-> doc.blockgroup.geoid,
                              population |-> bg_pop])]
    /\ trace' = Append(trace, [doc       |-> doc,
                               ids       |-> collected,
                               durations |-> travel_times,
                               visited   |-> j - 1])
    /\ pc' = "docs"
    /\ doc' = NoDoc
    /\ bg_pop' = 0
    /\ travel_times' = <<>>
    /\ collected' = <<>>
    /\ j' = 1
    /\ UNCHANGED <<mode, n_closest, excluded_zones, exclude_polygon,
                   not_excluded_shelters, docs_read, last_bg, contains_calls,
                   routes_vars, render_vars>>

\* line 236: the file is exhausted
Return ==
    /\ pc = "docs"
    /\ pc' = "returned"
    /\ UNCHANGED <<mode, n_closest, excluded_zones, exclude_polygon, data,
                   not_excluded_shelters, docs_read, doc, last_bg, bg_pop,
                   travel_times, j, collected, trace, contains_calls,
                       routes_vars, render_vars>>

Next ==
    \/ \E m \in ModeSet, n \in 1..MaxN, zones \in ZoneArgs : Analyze(m, n, zones)
    \/ IgnoreDoc
    \/ OutsideDoc
    \/ PopulationMissing
    \/ BeginDoc
    \/ VisitShelter
    \/ FinishDoc
    \/ Return

Spec == Init /\ [][Next]_vars

(***************************************************************************)
(* Properties of Analyst.analyze, checked under Spec.                      *)
(***************************************************************************)
\* the shelters of document d that have a route for the mode of the run and
\* do not lie in the exclusion polygon
Available(d) ==
    {i \in DOMAIN d.shelters :
        /\ d.shelters[i].routes[mode] # JsonFalse
        /\ ~(/\ "geom" \in DOMAIN exclude_polygon
             /\ d.shelters[i].coordinates \in exclude_polygon.geom)}

\* C1: for N >= 1 every in-scope block group collects at most N shelters
\* (durations appended to travel_times), and exactly N unless fewer than N
\* shelters of its list have a route for the mode and are not excluded by the
\* zone filter.
C1_CollectedCount ==
    /\ Len(travel_times) <= n_closest
    /\ \A k \in DOMAIN trace :
        /\ Len(trace[k].durations) <= n_closest
        /\ \/ Len(trace[k].durations) = n_closest
           \/ Cardinality(Available(trace[k].doc)) < n_closest

\* under an active zone filter that has excluded a shelter, one block group
\* stopped at N = 1 with a second shelter available and another one found
\* no available shelter at all
C1_Witness ==
    /\ pc = "returned"
    /\ n_closest = 1
    /\ data.excluded_shelters # {}
    /\ \E k \in DOMAIN trace :
        /\ Len(trace[k].durations) = 1
        /\ Cardinality(Available(trace[k].doc)) > 1
    /\ \E k \in DOMAIN trace :
        /\ Len(trace[k].durations) = 0
        /\ Available(trace[k].doc) = {}

\* a quotient equal to the number n / d
Equals(q, n, d) == "num" \in DOMAIN q /\ q.num * d = n * q.den

\* C2 (as claimed): a block group with no collected shelter has the avg_travel
\* value False, the inaccessible marker, not the number zero; a block group
\* with collected shelters has the mean of its durations divided by 60.
C2_AbsentWhenNoneCollected ==
    \A k \in DOMAIN trace :
        IF trace[k].durations = <<>>
        THEN data.blockgroups[k].avg_travel = PyFalse
        ELSE Equals(data.blockgroups[k].avg_travel,
                    Sum(trace[k].durations), Len(trace[k].durations) * 60)

\* the scenario of C3: analyze("walk", 2) without exclusion over a file of
\* one document, of a block group of 100 inhabitants whose sorted list has
\* the walk routes 120 s, 300 s and false
C3_Scenario ==
    /\ pc = "returned"
    /\ mode = "walk"
    /\ n_closest = 2
    /\ excluded_zones = None
    /\ docs_read = 1
    /\ Len(trace) = 1
    /\ data.blockgroups[1].population = 100
    /\ [i \in DOMAIN trace[1].doc.shelters |->
            trace[1].doc.shelters[i].routes["walk"]]
         = <<Route(120), Route(300), JsonFalse>>

\* avg_travel is 3.5 minutes and both reachable shelters serve 100 inhabitants
C3_Totals ==
    LET sh == trace[1].doc.shelters
    IN  /\ Len(data.blockgroups) = 1
        /\ Equals(data.blockgroups[1].avg_travel, 7, 2)
        /\ \A i \in {1, 2} :
            /\ ToString(sh[i].objectid) \in DOMAIN data.shelter_pops
            /\ data.shelter_pops[ToString(sh[i].objectid)] = 100
        /\ ToString(sh[3].objectid) \notin DOMAIN data.shelter_pops

\* C3 (as claimed): in the scenario the unreachable third shelter is recorded
\* in the output shelters list.
C3_ThirdShelterRecorded ==
    C3_Scenario =>
        /\ C3_Totals
        /\ trace[1].doc.shelters[3] \in Range(data.shelters)

\* C3 (amended): in the scenario avg_travel is 3.5 minutes and shelter_pops is
\* 100 for each reachable shelter; the walk stops once 2 shelters are
\* collected, so the third shelter is never met: it is neither in shelters
\* nor in shelter_pops.
C3_ThirdShelterNotMet ==
    C3_Scenario =>
        /\ C3_Totals
        /\ data.shelters = SubSeq(trace[1].doc.shelters, 1, 2)

C3_Witness == C3_Scenario

\* the objectids of the route records of the in-scope block groups
Occurring ==
    {trace[k].doc.shelters[i].objectid :
        k \in DOMAIN trace, i \in DOMAIN shelter_info.features}

\* some route record of objectid id has its coordinate in the polygon
InsideUnion(id) ==
    \E k \in DOMAIN trace : \E i \in DOMAIN trace[k].doc.shelters :
        /\ trace[k].doc.shelters[i].objectid = id
        /\ trace[k].doc.shelters[i].coordinates \in exclude_polygon.geom

\* the walk of some in-scope block group met objectid id with a route for the
\* mode before it stopped
MetWithRoute(id) ==
    \E k \in DOMAIN trace : \E i \in 1..trace[k].visited :
        /\ trace[k].doc.shelters[i].objectid = id
        /\ trace[k].doc.shelters[i].routes[mode] # JsonFalse

FilterActive == "geom" \in DOMAIN exclude_polygon /\ exclude_polygon.geom # {}

\* C4 (as claimed): with an active filter, a shelter of the in-scope route
\* records is in excluded_shelters if and only if its coordinate lies inside
\* the exclusion union.
C4_ExcludedIffInside ==
    (pc = "returned" /\ FilterActive) =>
        \A id \in Occurring :
            id \in data.excluded_shelters <=> InsideUnion(id)

\* C4 (amended): with an active filter, a shelter is in excluded_shelters if
\* and only if its coordinate lies inside the exclusion union and the walk of
\* some in-scope block group met it, with a route for the mode, before that
\* walk stopped.
C4_ExcludedIffInsideAndMet ==
    (pc = "returned" /\ FilterActive) =>
        /\ data.excluded_shelters \subseteq Occurring
        /\ \A id \in Occurring :
            id \in data.excluded_shelters <=> (InsideUnion(id) /\ MetWithRoute(id))

\* a shelter inside the union was excluded and another one inside the union
\* was never met with a route
C4_Witness ==
    /\ pc = "returned"
    /\ FilterActive
    /\ \E id \in Occurring : id \in data.excluded_shelters
    /\ \E id \in Occurring : InsideUnion(id) /\ ~MetWithRoute(id)

\* the objectids that were counted: they have a shelter_pops entry, or
\* contributed a duration to a block group
CountedIds ==
    {f.properties.OBJECTID : f \in
        {g \in Range(shelter_info.features) :
            \/ ToString(g.properties.OBJECTID) \in DOMAIN data.shelter_pops
            \/ g.properties.OBJECTID \in Range(collected)
            \/ \E k \in DOMAIN trace : g.properties.OBJECTID \in Range(trace[k].ids)}}

\* C5: in every state of analyze no shelter is both in excluded_shelters and
\* counted (with a shelter_pops entry, a duration or a line segment).
C5_ExcludedCountedDisjoint ==
    pc # "idle" =>
        /\ data.excluded_shelters \cap CountedIds = {}
        /\ \A id \in data.excluded_shelters :
            \A n \in DOMAIN data.bg_to_shelter_lines :
                data.bg_to_shelter_lines[n][1] #
                    find_shelter(id).geometry.coordinates

\* some shelters are excluded while others are counted, in the same run
C5_Witness ==
    /\ pc = "returned"
    /\ data.excluded_shelters # {}
    /\ CountedIds # {}
    /\ Len(trace) = 2

\* the population the in-scope block groups that collected id add up to
RECURSIVE PopServed(_, _)
PopServed(id, k) ==
    IF k = 0 THEN 0
    ELSE PopServed(id, k - 1) +
         (IF id \in Range(trace[k].ids)
          THEN acs5["15000US" \o trace[k].doc.blockgroup.geoid] ELSE 0)

RECURSIVE PairCount(_)
PairCount(k) == IF k = 0 THEN 0 ELSE PairCount(k - 1) + Len(trace[k].ids)

\* C6: after analyze, shelter_pops[str(s)] is the sum of the full populations
\* of the in-scope block groups that collected s, a shelter collected by none
\* has no entry, and bg_to_shelter_lines has one segment per (block group,
\* collected shelter) pair.
C6_PopulationServed ==
    pc = "returned" =>
        /\ \A f \in Range(shelter_info.features) :
            LET id == f.properties.OBJECTID
            IN  IF \E k \in DOMAIN trace : id \in Range(trace[k].ids)
                THEN /\ ToString(id) \in DOMAIN data.shelter_pops
                     /\ data.shelter_pops[ToString(id)] = PopServed(id, Len(trace))
                ELSE ToString(id) \notin DOMAIN data.shelter_pops
        /\ DOMAIN data.shelter_pops \subseteq
              {ToString(f.properties.OBJECTID) : f \in Range(shelter_info.features)}
        /\ Len(data.bg_to_shelter_lines) = PairCount(Len(trace))

\* one shelter was collected by two block groups, another by one only, and a
\* third by none
C6_Witness ==
    /\ pc = "returned"
    /\ Len(trace) = 2
    /\ \E a, b, c \in Occurring :
        /\ a \in Range(trace[1].ids) /\ a \in Range(trace[2].ids)
        /\ b \in Range(trace[1].ids) /\ b \notin Range(trace[2].ids)
        /\ c \notin Range(trace[1].ids) /\ c \notin Range(trace[2].ids)

\* the objectids of the first n elements of seq that have a route for the mode
RECURSIVE FirstRouted(_, _)
FirstRouted(seq, n) ==
    IF seq = <<>> \/ n = 0 THEN <<>>
    ELSE IF seq[1].routes[mode] # JsonFalse
         THEN <<seq[1].objectid>> \o FirstRouted(Tail(seq), n - 1)
         ELSE FirstRouted(Tail(seq), n)

\* C7: with zone exclusion disabled (excluded_zones is not a list),
\* excluded_shelters is empty in every state, and every block group counts
\* the shelters with a route for the mode in list order until N are
\* collected.
C7_FilterDisabled ==
    (pc # "idle" /\ "list" \notin DOMAIN excluded_zones) =>
        /\ data.excluded_shelters = {}
        /\ collected = FirstRouted(SubSeq(doc.shelters, 1, j - 1), n_closest)
        /\ \A k \in DOMAIN trace :
            trace[k].ids = FirstRouted(trace[k].doc.shelters, n_closest)

\* with the filter disabled, a shelter of zone A was counted, one block group
\* was cut off by the N-limit and one passed over a shelter without a route
C7_Witness ==
    /\ pc = "returned"
    /\ excluded_zones = None
    /\ "1" \in DOMAIN data.shelter_pops
    /\ \E k \in DOMAIN trace :
        /\ Len(trace[k].ids) = n_closest
        /\ Cardinality(Available(trace[k].doc)) > n_closest
    /\ \E k \in DOMAIN trace : \E a, b \in DOMAIN trace[k].doc.shelters :
        /\ a < b
        /\ trace[k].doc.shelters[a].routes[mode] = JsonFalse
        /\ trace[k].doc.shelters[b].objectid \in Range(trace[k].ids)

\* every entry of blockgroups is of a block group in scope
BlockgroupsInScope ==
    pc # "idle" =>
        /\ Len(data.blockgroups) = Len(trace)
        /\ \A k \in DOMAIN trace :
            /\ data.blockgroups[k].geoid = trace[k].doc.blockgroup.geoid
            /\ trace[k].doc.blockgroup.geoid \notin IGNORE_GEOIDS
            /\ trace[k].doc.blockgroup.centroid \in BOSTON_POLYGON

\* a step that takes a document of an ignored block group, or of one with its
\* centroid outside the boundary, changes no output field and not the memo
OutOfScopeFrame ==
    (/\ docs_read' = docs_read + 1
     /\ \/ last_bg'.geoid \in IGNORE_GEOIDS
        \/ last_bg'.centroid \notin BOSTON_POLYGON)
    => /\ data' = data
       /\ not_excluded_shelters' = not_excluded_shelters
       /\ pc' = "docs"

\* C10: a route record of an ignored block group, or of one whose centroid is
\* outside the boundary, is omitted from blockgroups whatever its routes, and
\* processing it leaves shelter_pops, shelters, bg_to_shelter_lines,
\* excluded_shelters and the exclusion memo unchanged.
C10_OutOfScopeOmitted == []BlockgroupsInScope /\ [][OutOfScopeFrame]_vars

\* an outside document was passed over after a block group had been
\* aggregated
C10_Witness ==
    /\ pc = "docs"
    /\ docs_read = 2
    /\ Len(trace) = 1
    /\ data.shelter_pops # <<>>
    /\ last_bg.centroid \notin BOSTON_POLYGON

(***************************************************************************)
(* update_routes as a process: one pass over the raw file per mode.        *)
(***************************************************************************)
\* a file opened for writing and not written yet
EmptyFile == [bytes |-> 0]

\* json.dump(docs, f_out)
JsonArray(ds) == [array |-> ds]

RoutesInit ==
    /\ routes_json \in UNION {[1..n -> RouteLines] : n \in 0..MaxDocs}
    /\ ur_pc = "mode"
    /\ ur_mode = 1
    /\ ur_line = 0
    /\ docs = <<>>
    /\ out_files = [m \in ModeSet |-> None]

InitRoutes == AnalystInit /\ RoutesInit /\ RenderOff

\* lines 87-92: the mode's output file is opened for writing
OpenMode ==
    /\ ur_pc = "mode"
    /\ ur_mode <= Len(Modes)
    /\ out_files' = [out_files EXCEPT ![Modes[ur_mode]] = EmptyFile]
    /\ docs' = <<>>
    /\ ur_line' = 0
    /\ ur_pc' = "lines"
    /\ UNCHANGED <<routes_json, ur_mode, analyst_vars, render_vars>>

\* lines 94-109: one line of the raw file
ReadLine ==
    /\ ur_pc = "lines"
    /\ ur_line < Len(routes_json)
    /\ CanAttach(routes_json[ur_line + 1])
    /\ docs' = Append(docs, UpdateDoc(routes_json[ur_line + 1], Modes[ur_mode]))
    /\ ur_line' = ur_line + 1
    /\ UNCHANGED <<routes_json, ur_pc, ur_mode, out_files, analyst_vars, render_vars>>

\* line 98: find_shelter returns None and subscripting it raises TypeError
LookupFails ==
    /\ ur_pc = "lines"
    /\ ur_line < Len(routes_json)
    /\ ~CanAttach(routes_json[ur_line + 1])
    /\ ur_pc' = "TypeError"
    /\ UNCHANGED <<routes_json, ur_mode, ur_line, docs, out_files, analyst_vars, render_vars>>

\* line 111: the lines are exhausted and the array is written
DumpMode ==
    /\ ur_pc = "lines"
    /\ ur_line = Len(routes_json)
    /\ out_files' = [out_files EXCEPT ![Modes[ur_mode]] = JsonArray(docs)]
    /\ ur_mode' = ur_mode + 1
    /\ ur_pc' = "mode"
    /\ UNCHANGED <<routes_json, ur_line, docs, analyst_vars, render_vars>>

\* the loop over the modes has ended
RoutesDone ==
    /\ ur_pc = "mode"
    /\ ur_mode > Len(Modes)
    /\ ur_pc' = "done"
    /\ UNCHANGED <<routes_json, ur_mode, ur_line, docs, out_files, analyst_vars, render_vars>>

NextRoutes ==
    \/ OpenMode
    \/ ReadLine
    \/ LookupFails
    \/ DumpMode
    \/ RoutesDone

SpecRoutes == InitRoutes /\ [][NextRoutes]_vars

(***************************************************************************)
(* Properties of update_routes, checked under SpecRoutes.                  *)
(***************************************************************************)
\* the modes whose array has been written
Written == {m \in ModeSet : "array" \in DOMAIN out_files[m]}

\* C8 (as claimed): in every shelter list update_routes writes for a mode
\* the durations never decrease along the list, and every shelter without a
\* route for the mode comes after every shelter that has one, a route of
\* duration 0 included.
C8_SortedByDuration ==
    \A m \in Written : \A n \in DOMAIN out_files[m].array :
        LET sh == out_files[m].array[n].shelters
        IN  \A a, b \in DOMAIN sh :
                a < b =>
                    /\ sh[a].routes[m] = JsonFalse => sh[b].routes[m] = JsonFalse
                    /\ (sh[a].routes[m] # JsonFalse /\ sh[b].routes[m] # JsonFalse)
                           => sh[a].routes[m].duration <= sh[b].routes[m].duration

\* the shelters of a list, without the coordinates update_routes attaches
Stripped(sh) ==
    [i \in DOMAIN sh |-> [objectid |-> sh[i].objectid, routes |-> sh[i].routes]]

Occurrences(seq, x) == Cardinality({i \in DOMAIN seq : seq[i] = x})

\* out is the document of the raw line: the same block group, the same
\* shelters as a multiset, each with the coordinates of its feature
SameDocument(out, raw) ==
    /\ out.blockgroup = raw.blockgroup
    /\ Len(out.shelters) = Len(raw.shelters)
    /\ \A x \in Range(raw.shelters) \cup Range(Stripped(out.shelters)) :
          Occurrences(Stripped(out.shelters), x) = Occurrences(raw.shelters, x)
    /\ \A i \in DOMAIN out.shelters :
          /\ "coordinates" \in DOMAIN out.shelters[i]
          /\ \E f \in Range(shelter_info.features) :
                /\ f.properties.OBJECTID = out.shelters[i].objectid
                /\ f.geometry.coordinates = out.shelters[i].coordinates

\* C9: for each mode update_routes writes exactly one document per input
\* line, in input order, each with the multiset of shelters of its line and
\* with coordinates attached to every shelter; nothing is dropped or
\* duplicated.
C9_OrderPreservingNoFilter ==
    /\ ur_pc = "lines" =>
          /\ Len(docs) = ur_line
          /\ \A n \in DOMAIN docs : SameDocument(docs[n], routes_json[n])
    /\ \A m \in Written :
          /\ Len(out_files[m].array) = Len(routes_json)
          /\ \A n \in DOMAIN routes_json :
                SameDocument(out_files[m].array[n], routes_json[n])
    /\ ur_pc = "done" => Written = ModeSet

\* all three arrays are written for a file of two different documents, one
\* of which has a shelter without a route ahead of a shelter with one
C9_Witness ==
    /\ ur_pc = "done"
    /\ Len(routes_json) = 2
    /\ routes_json[1] # routes_json[2]
    /\ \E m \in ModeSet :
          /\ routes_json[1].shelters[2].routes[m] = JsonFalse
          /\ routes_json[1].shelters[3].routes[m] # JsonFalse
          /\ out_files[m].array[1].shelters[2].objectid = 3

(***************************************************************************)
(* The exclusion memo within one run of analyze.                           *)
(***************************************************************************)
\* the walks finished so far met objectid id, with a route for the mode, and
\* counted it every time / never
AlwaysCounted(id) ==
    \A k \in DOMAIN trace : \A i \in 1..trace[k].visited :
        (/\ trace[k].doc.shelters[i].objectid = id
         /\ trace[k].doc.shelters[i].routes[mode] # JsonFalse)
        => id \in Range(trace[k].ids)

NeverCounted(id) ==
    /\ \A k \in DOMAIN trace : id \notin Range(trace[k].ids)
    /\ id \notin Range(collected)
    /\ ToString(id) \notin DOMAIN data.shelter_pops
    /\ \A n \in DOMAIN data.bg_to_shelter_lines :
          data.bg_to_shelter_lines[n][1] # find_shelter(id).geometry.coordinates

\* the memo in one state of a run with an active filter
MemoState ==
    (pc # "idle" /\ FilterActive) =>
        /\ \A a, b \in DOMAIN contains_calls :
              a # b => contains_calls[a] # contains_calls[b]
        /\ Range(contains_calls) = data.excluded_shelters \cup not_excluded_shelters
        /\ data.excluded_shelters \cap not_excluded_shelters = {}
        /\ \A id \in data.excluded_shelters :
              /\ find_shelter(id).geometry.coordinates \in exclude_polygon.geom
              /\ NeverCounted(id)
        /\ \A id \in not_excluded_shelters :
              /\ find_shelter(id).geometry.coordinates \notin exclude_polygon.geom
              /\ AlwaysCounted(id)

\* a step of a run never takes an objectid out of either set of the memo
MemoStep ==
    (pc # "idle" /\ pc' # "idle" /\ FilterActive) =>
        /\ data.excluded_shelters \subseteq data'.excluded_shelters
        /\ not_excluded_shelters \subseteq not_excluded_shelters'

\* C12: within one run of analyze with an active exclusion filter the
\* point-in-polygon test is made at most once per shelter ID, the status it
\* found (excluded or not) is the status of every later occurrence of the ID
\* in any block group's list and never changes, and an excluded shelter
\* contributes no duration, population or line segment.
C12_TestedOncePerShelter == []MemoState /\ [][MemoStep]_vars

\* two block groups met the same excluded shelter and the same shelter found
\* outside the union, each with a route: two tests were made, not four
C12_Witness ==
    /\ pc = "returned"
    /\ FilterActive
    /\ Len(trace) = 2
    /\ Len(contains_calls) = 2
    /\ \E a \in data.excluded_shelters, b \in not_excluded_shelters :
          \A k \in DOMAIN trace :
              \E x, y \in 1..trace[k].visited :
                  /\ trace[k].doc.shelters[x].objectid = a
                  /\ trace[k].doc.shelters[x].routes[mode] # JsonFalse
                  /\ trace[k].doc.shelters[y].objectid = b
                  /\ trace[k].doc.shelters[y].routes[mode] # JsonFalse

(***************************************************************************)
(* The pipeline: update_routes writes the three sorted files, then one     *)
(* Analyst object is called repeatedly, as render_all_modes (lines         *)
(* 469-486) calls it, and each call reads the file of its mode.            *)
(***************************************************************************)
\* the shelter list whose i-th entry has the routes of Profile(ks[i])
ShelterList(ks) ==
    [i \in DOMAIN shelter_info.features |->
        [objectid |-> shelter_info.features[i].properties.OBJECTID,
         routes   |-> Profile(ks[i])]]

BlockGroup(geoid) == CHOOSE bg \in BlockGroups : bg.geoid = geoid

\* the lines of the raw files of the pipeline: a document of a block group in
\* scope, one outside the boundary, one of the ignore list, one without a
\* population row, and one naming a shelter that has no feature
PipelineLines ==
    { [_id |-> "oid", blockgroup |-> BlockGroup("250250001001"),
       shelters |-> ShelterList(<<0, 1, 3>>)],
      [_id |-> "oid", blockgroup |-> BlockGroup("250173001003"),
       shelters |-> ShelterList(<<0, 1, 3>>)],
      [_id |-> "oid", blockgroup |-> BlockGroup("250259901010"),
       shelters |-> ShelterList(<<0, 1, 3>>)],
      [_id |-> "oid", blockgroup |-> BlockGroup("250250003003"),
       shelters |-> ShelterList(<<0, 1, 3>>)] } \cup StaleDocs

\* the raw files of the pipeline
PipelineFiles == UNION {[1..n -> PipelineLines] : n \in 0..MaxDocs}

InitPipeline ==
    /\ AnalystInit
    /\ RenderOff
    /\ routes_json \in PipelineFiles
    /\ ur_pc = "mode"
    /\ ur_mode = 1
    /\ ur_line = 0
    /\ docs = <<>>
    /\ out_files = [m \in ModeSet |-> None]

\* line 169: json.load of the file of the call's mode
LoadedDocs == out_files[mode].array

\* lines 482-486: the next call; every call of a session gets the same
\* excluded_zones
CallAnalyze ==
    /\ ur_pc = "done"
    /\ calls < MaxCalls
    /\ \E m \in ModeSet, n \in 1..MaxN, zones \in ZoneArgs :
        /\ calls = 0 \/ zones = excluded_zones
        /\ Analyze(m, n, zones)

\* line 170 over the loaded file: the next document is the one at docs_read
ReadIgnored ==
    /\ pc = "docs"
    /\ docs_read < Len(LoadedDocs)
    /\ IgnoreDocOf(LoadedDocs[docs_read + 1])

ReadOutside ==
    /\ pc = "docs"
    /\ docs_read < Len(LoadedDocs)
    /\ OutsideDocOf(LoadedDocs[docs_read + 1])

ReadWithoutPopulation ==
    /\ pc = "docs"
    /\ docs_read < Len(LoadedDocs)
    /\ PopulationMissingOf(LoadedDocs[docs_read + 1])

ReadInScope ==
    /\ pc = "docs"
    /\ docs_read < Len(LoadedDocs)
    /\ BeginDocOf(LoadedDocs[docs_read + 1])

\* line 236, when the loop of line 170 has exhausted the file
ReturnAtEnd ==
    /\ pc = "docs"
    /\ docs_read = Len(LoadedDocs)
    /\ Return

\* the key of a result in render_all_modes' dictionary (line 485)
ResultKey == <<mode, ToString(n_closest)>>

\* line 485: the returned dictionary is stored under data[mode][str(n_closest)]
StoreResult ==
    /\ pc = "returned"
    /\ results' = (ResultKey :> data) @@ results
    /\ calls' = calls + 1
    /\ pc' = "idle"
    /\ UNCHANGED <<mode, n_closest, excluded_zones, exclude_polygon, data,
                   not_excluded_shelters, docs_read, doc, last_bg, bg_pop,
                   travel_times, j, collected, trace, contains_calls,
                   routes_vars>>

NextPipeline ==
    \/ OpenMode
    \/ ReadLine
    \/ LookupFails
    \/ DumpMode
    \/ RoutesDone
    \/ CallAnalyze
    \/ ReadIgnored
    \/ ReadOutside
    \/ ReadWithoutPopulation
    \/ ReadInScope
    \/ VisitShelter
    \/ FinishDoc
    \/ ReturnAtEnd
    \/ StoreResult

SpecPipeline == InitPipeline /\ [][NextPipeline]_vars

(***************************************************************************)
(* Properties of the pipeline, checked under SpecPipeline.                 *)
(***************************************************************************)
\* a call that returns with the parameters of an earlier call of the session
\* returns the totals and the excluded set that call returned
RerunIdentical ==
    (pc = "returned" /\ ResultKey \in DOMAIN results) =>
        /\ data.shelter_pops = results[ResultKey].shelter_pops
        /\ data.excluded_shelters = results[ResultKey].excluded_shelters

\* a call starts from empty totals and an empty memo, whatever ran before
FreshCall ==
    (pc = "docs" /\ docs_read = 0) =>
        /\ data.shelter_pops = <<>>
        /\ data.shelters = <<>>
        /\ data.blockgroups = <<>>
        /\ data.bg_to_shelter_lines = <<>>
        /\ data.excluded_shelters = {}
        /\ not_excluded_shelters = {}
        /\ contains_calls = <<>>

\* a later call changes nothing in the totals an earlier call returned
ResultsKept ==
    \A k \in DOMAIN results :
        /\ k \in DOMAIN results'
        /\ results'[k].shelter_pops = results[k].shelter_pops
        /\ results'[k].excluded_shelters = results[k].excluded_shelters

\* C11: calling analyze again on the same Analyst object, with the same files
\* and the same parameters, returns identical shelter_pops totals and an
\* identical excluded_shelters set; no memo, total or other state of a call
\* carries over to the next call, nor between the successive (mode, N) calls
\* of render_all_modes.
C11_RerunIdentical == []RerunIdentical /\ []FreshCall /\ [][ResultsKept]_vars

\* the third call of a session repeats the parameters of an earlier one,
\* after a call with other parameters, and has excluded and counted shelters
C11_Witness ==
    /\ pc = "returned"
    /\ calls = 2
    /\ ResultKey \in DOMAIN results
    /\ Cardinality(DOMAIN results) = 2
    /\ data.shelter_pops # <<>>
    /\ data.excluded_shelters # {}
    /\ not_excluded_shelters # {}

\* the route document names a shelter that has no feature in shelters.json
MissingShelter(line) ==
    \E i \in DOMAIN line.shelters :
        \A f \in Range(shelter_info.features) :
            f.properties.OBJECTID # line.shelters[i].objectid

\* the block group is in scope and has no row in the population table
InScopeWithoutPopulation(bg) ==
    /\ "geoid" \in DOMAIN bg
    /\ bg.geoid \notin IGNORE_GEOIDS
    /\ bg.centroid \in BOSTON_POLYGON
    /\ (ACS5_GEOID_PREFIX \o bg.geoid) \notin DOMAIN acs5

FatalLookupState ==
    /\ (\E n \in DOMAIN routes_json : MissingShelter(routes_json[n])) =>
          /\ Written = {}
          /\ ur_pc # "done"
          /\ pc = "idle"
    /\ ur_pc = "TypeError" =>
          /\ MissingShelter(routes_json[ur_line + 1])
          /\ out_files[Modes[ur_mode]] = EmptyFile
    /\ (\E n \in DOMAIN routes_json :
            InScopeWithoutPopulation(routes_json[n].blockgroup)) =>
          /\ pc # "returned"
          /\ results = <<>>
    /\ pc = "KeyError" =>
          /\ InScopeWithoutPopulation(last_bg)
          /\ Len(data.blockgroups) < docs_read
          /\ \A n \in DOMAIN data.blockgroups :
                data.blockgroups[n].geoid # last_bg.geoid

FatalLookupStep ==
    /\ (docs_read' = docs_read + 1 /\ InScopeWithoutPopulation(last_bg')) =>
          /\ pc' = "KeyError"
          /\ data' = data
    /\ pc = "KeyError" => (pc' = "KeyError" /\ data' = data /\ results' = results)
    /\ ur_pc = "TypeError" => (ur_pc' = "TypeError" /\ out_files' = out_files)

\* C13: when an in-scope block group has no row in the population table,
\* analyze ends in a lookup error: the block group is not passed over and no
\* result, partial or whole, is returned; and when a route document names a
\* shelter objectid without a feature, update_routes ends in an error and no
\* completed array is written.
C13_FatalLookups == []FatalLookupState /\ [][FatalLookupStep]_vars

\* analyze has failed on the second document of the file, after a block
\* group was aggregated, and nothing has been returned
C13_Witness ==
    /\ pc = "KeyError"
    /\ docs_read = 2
    /\ Len(data.blockgroups) = 1
    /\ data.shelter_pops # <<>>
    /\ results = <<>>

====
